---------------------------- MODULE Spec2Model ----------------------------
(***************************************************************************)
(* A model of the brunch-blog repository:                                  *)
(*   - api/index.js      the Express handlers (weather proxy, posts CRUD)   *)
(*   - public/client.js  the browser client that calls Open-Meteo directly  *)
(*   - client.js         the browser client that calls GET /api/weather     *)
(*                                                                         *)
(* JavaScript values that may be absent are records with a "kind" field,   *)
(* so that `undefined >= 51` is FALSE as in JavaScript.  TLC reads ASCII   *)
(* only: the Korean labels and messages of the source are romanised, the   *)
(* original literal is given in a comment next to each.                    *)
(***************************************************************************)
EXTENDS Integers, Sequences, FiniteSets, TLC

VARIABLES
    \* ---- the pure weather-code mapping, applied to a drawn input
    code,            \* the weathercode handed to getThemeFromWeatherCode
    serverTheme,     \* result of api/index.js getThemeFromWeatherCode
    clientTheme,     \* result of public/client.js ThemeManager.getThemeFromWeatherCode
    \* ---- GET /api/weather (api/index.js)
    wpc,             \* position of the handler: idle, awaitFetch, awaitJson, done
    wfetch,          \* the promise of fetch(open-meteo): pending, rejected, ok, notok
    wbody,           \* the promise of response.json(): BodyPending or a settled body
    wres,            \* the response written with res.json, or NoResponse
    \* ---- public/client.js: ThemeManager.loadWeatherTheme, fetchWeatherAndApply
    cgeo,            \* navigator.geolocation as read: unread, present, absent
    cpc,             \* idle, awaitGeo, awaitFetch, awaitJson, done
    cposition,       \* the position promise: pending, granted, or null (denied, timeout)
    cfetch,          \* the promise of fetch(open-meteo): pending, rejected, ok, notok
    cbody,           \* the promise of response.json()
    currentTheme,    \* AppState.currentTheme
    indicator,       \* the text of #weather-label and #weather-temp
    \* ---- client.js: ThemeManager.loadWeatherTheme over API.getWeather
    pgeo,            \* navigator.geolocation as read: unread, present, absent
    ppc,             \* idle, awaitGeo, awaitFetch, awaitJson, done
    ppath,           \* who called API.getWeather: none, geoSuccess, geoDenied, noGeo
    pfetch,          \* the promise of fetch('/api/weather'): pending, rejected, resolved
    presult,         \* the promise of response.json()
    proxyTheme,      \* AppState.currentTheme of client.js
    proxyIndicator,  \* the text of #weather-label and #weather-temp
    unhandledRejection, \* a promise rejected with no handler attached
    \* ---- the posts table (Supabase) and the posts handlers of api/index.js
    table,           \* id -> row of `posts`, NoRow where there is none
    nextId,          \* the next id the table assigns
    now,             \* the clock
    incs,            \* view_count writes sent and not yet executed: id -> value -> count
    lastRes,         \* the response of the last posts request
    \* ---- history, for the statements about sequences of requests
    created,         \* id -> the body the post was created with
    fetched,         \* id -> number of detail fetches answered 200
    incFailed,       \* id -> number of view_count writes that failed
    incLogged,       \* id -> number of failed view_count writes given to console.error
    updates,         \* id -> number of PUT requests that wrote the row
    removed,         \* ids whose row a DELETE has removed
    \* ---- ThemeManager.darken, applied to a drawn input
    dhex,            \* the hex digits of the color after '#', <<>> before a call
    dpercent,        \* the percent
    dresult,         \* the hex digits of the result after '#', <<>> before the call
    \* ---- server.js: app.listen and the SIGTERM handler
    listening,       \* the listening socket of `server` is open
    connections,     \* connection -> none, idle, busy (a request in progress), ended
    closeCallbacks,  \* callbacks of server.close() waiting for the 'close' event
    exitCode,        \* "running", or the code given to process.exit
    busyAtSigterm,   \* history: connections with a request in progress at a SIGTERM
    \* ---- UI.renderPagination, applied to a drawn input
    rpPagination,    \* the pagination object handed to renderPagination
    rpHtml,          \* the buttons written to #pagination, Unrendered before the call
    \* ---- public/client.js and client.js: the DOMContentLoaded handler and Router
    started,         \* the handler has called Router.handleRoute and added the listeners
    path,            \* window.location.pathname, as its segments
    visited,         \* the paths of the entries of the session history
    listVisible,     \* #post-list-container does not carry the class hidden
    detailVisible,   \* #post-detail-container does not carry the class hidden
    isLoading,       \* AppState.isLoading
    currentPage,     \* AppState.currentPage
    postsPage,       \* the page AppState.posts was answered for, 0 for the initial []
    totalPages,      \* AppState.totalPages
    currentPost,     \* the id of AppState.currentPost, 0 for null
    paginationHtml,  \* the buttons in #pagination
    toast,           \* #error-toast carries the class show
    timers,          \* pending setTimeout(() => this.navigate('/'), 2000) timers
    inflight,        \* the API.getPosts and API.getPost calls not yet settled
    requests,        \* the number of API calls the Router has made
    events,          \* the number of clicks and popstate events handled
    answered,        \* history: the last API call settled, and how
    failures         \* history: the number of API calls that failed

themeVars   == <<code, serverTheme, clientTheme>>
weatherVars == <<wpc, wfetch, wbody, wres>>
clientVars  == <<cgeo, cpc, cposition, cfetch, cbody, currentTheme, indicator>>
proxyVars   == <<pgeo, ppc, ppath, pfetch, presult, proxyTheme, proxyIndicator,
                 unhandledRejection>>
postVars    == <<table, nextId, now, incs, lastRes, created, fetched, incFailed,
                 incLogged, updates, removed>>
darkenVars  == <<dhex, dpercent, dresult>>
shutdownVars == <<listening, connections, closeCallbacks, exitCode, busyAtSigterm>>
paginationVars == <<rpPagination, rpHtml>>
routerVars  == <<started, path, visited, listVisible, detailVisible, isLoading,
                 currentPage, postsPage, totalPages, currentPost, paginationHtml,
                 toast, timers, inflight, requests, events, answered, failures>>
vars == <<themeVars, weatherVars, clientVars, proxyVars, postVars, darkenVars,
          shutdownVars, paginationVars, routerVars>>

\* what the actions of one part leave alone
outsideTheme   == <<weatherVars, clientVars, proxyVars, postVars, darkenVars,
                   shutdownVars, paginationVars, routerVars>>
outsideWeather == <<themeVars, clientVars, proxyVars, postVars, darkenVars,
                   shutdownVars, paginationVars, routerVars>>
outsideClient  == <<themeVars, weatherVars, proxyVars, postVars, darkenVars,
                   shutdownVars, paginationVars, routerVars>>
outsideProxy   == <<themeVars, weatherVars, clientVars, postVars, darkenVars,
                   shutdownVars, paginationVars, routerVars>>
outsidePosts   == <<themeVars, weatherVars, clientVars, proxyVars, darkenVars,
                   shutdownVars, paginationVars, routerVars>>
outsideDarken  == <<themeVars, weatherVars, clientVars, proxyVars, postVars,
                   shutdownVars, paginationVars, routerVars>>
outsideShutdown == <<themeVars, weatherVars, clientVars, proxyVars, postVars,
                   darkenVars, paginationVars, routerVars>>
outsidePagination == <<themeVars, weatherVars, clientVars, proxyVars, postVars,
                   darkenVars, shutdownVars, routerVars>>
\* the Router leaves these alone; its first call waits for loadWeatherTheme
outsideRouter  == <<themeVars, weatherVars, clientVars, proxyVars, postVars,
                   darkenVars, shutdownVars, paginationVars>>

----------------------------------------------------------------------------
(* Bounds of the model *)

\* weather codes 0 .. MaxCode are drawn (the table's last range ends at 99)
MaxCode == 100
\* weather codes -NegCodes .. -1 are drawn
NegCodes == 2
\* ids 1 .. MaxPosts are requested, and at most MaxPosts posts are created
\* where detail fetches and updates run
MaxPosts == 1
\* at most MaxGets detail fetches are answered 200
MaxGets == 2
\* at most MaxViews detail fetches are answered 200 where only creates and
\* detail fetches run; view_count values 1 .. MaxViews are written
MaxViews == 3
\* at most MaxUpdates PUT requests write a row
MaxUpdates == 1
\* the clock runs from 0 to MaxTime
MaxTime == 1
\* the table has room for ids 1 .. MaxListed; the list specification creates
\* up to MaxListed posts
MaxListed == 2
\* GET /api/posts is requested with page 1 .. MaxPage, or without page
MaxPage == 2
\* GET /api/posts is requested with limit 1 .. MaxLimit, or without limit
MaxLimit == 2
\* darken is called with percent 0 .. MaxPercent
MaxPercent == 100
\* the server is given up to MaxConns connections
MaxConns == 2
\* the process is sent up to MaxSigterms SIGTERM signals
MaxSigterms == 2
\* renderPagination is given the pagination of tables of 0 .. MaxTotal posts
MaxTotal == 35
\* the Router is answered with the pagination of tables of 0 .. MaxRouterTotal posts
MaxRouterTotal == 11
\* the list links to posts 1 .. MaxPostId
MaxPostId == 1
\* the user clicks or moves through the history up to MaxEvents times
MaxEvents == 3

----------------------------------------------------------------------------
(* JavaScript values *)

Num(n) == [kind |-> "number", n |-> n]
Undefined == [kind |-> "undefined", n |-> 0]

\* code === k
StrictEq(c, k) == c.kind = "number" /\ c.n = k
\* code >= lo && code <= hi ; a comparison with undefined is false
Between(c, lo, hi) == c.kind = "number" /\ c.n >= lo /\ c.n <= hi

\* Math.round of a number given in tenths (21.5 is 215): rounds half up
MathRound10(t) == (t + 5) \div 10

\* the codes the model draws: the integers of the bounds, the out-of-range
\* 9999 and an absent code
CodeInputs ==
    {Num(n) : n \in (0 - NegCodes)..MaxCode} \cup {Num(9999), Undefined}

\* temperatures in tenths of a degree: -1.5, 21.4, 21.5
TempInputs == {0 - 15, 214, 215}

----------------------------------------------------------------------------
(* Themes *)

Theme(c, n, l) == [color |-> c, name |-> n, label |-> l]

\* AppState.currentTheme: null
NoTheme == Theme("", "null", "")

\* { color: '#00C6BD', name: 'default', label: '기본' }
DefaultTheme == Theme("#00C6BD", "default", "gibon")

getThemeFromWeatherCode_rainTo66(c) ==
    IF StrictEq(c, 0) THEN Theme("#00C6BD", "clear", "malgeum")
    ELSE IF \E k \in {1, 2, 3, 45, 48} : StrictEq(c, k)
        THEN Theme("#8E8E93", "clouds", "heurim")
    ELSE IF Between(c, 51, 66) \/ Between(c, 80, 82)
        THEN Theme("#4A90E2", "rain", "bi")
    ELSE IF Between(c, 71, 77) \/ StrictEq(c, 85) \/ StrictEq(c, 86)
        THEN Theme("#B8C5D6", "snow", "nun")
    ELSE IF Between(c, 95, 99)
        THEN Theme("#4A90E2", "thunderstorm", "cheondungbeongae")
    ELSE DefaultTheme

\* api/index.js getThemeFromWeatherCode.  Labels: malgeum '맑음', heurim '흐림',
\* bi '비', nun '눈', cheondungbeongae '천둥번개', gibon '기본'.
getThemeFromWeatherCode(c) ==
    IF StrictEq(c, 0) THEN Theme("#00C6BD", "clear", "malgeum")
    ELSE IF \E k \in {1, 2, 3, 45, 48} : StrictEq(c, k)
        THEN Theme("#8E8E93", "clouds", "heurim")
    ELSE IF Between(c, 51, 67) \/ Between(c, 80, 82)
        THEN Theme("#4A90E2", "rain", "bi")
    ELSE IF Between(c, 71, 77) \/ StrictEq(c, 85) \/ StrictEq(c, 86)
        THEN Theme("#B8C5D6", "snow", "nun")
    ELSE IF Between(c, 95, 99)
        THEN Theme("#4A90E2", "thunderstorm", "cheondungbeongae")
    ELSE DefaultTheme

\* public/client.js ThemeManager.weatherMap: code -> label, "" where the map
\* has no entry.  daechero malgeum '대체로 맑음', bubunjeogeuro heurim
\* '부분적으로 흐림', angae '안개', iseulbi '이슬비', pogu '폭우',
\* sonagi '소나기', pokseol '폭설'.
weatherMap(n) ==
    CASE n = 0 -> "malgeum"
      [] n = 1 -> "daechero malgeum"
      [] n = 2 -> "bubunjeogeuro heurim"
      [] n = 3 -> "heurim"
      [] n \in {45, 48} -> "angae"
      [] n \in {51, 53, 55} -> "iseulbi"
      [] n \in {61, 63} -> "bi"
      [] n \in {65, 82} -> "pogu"
      [] n \in {71, 73} -> "nun"
      [] n = 75 -> "pokseol"
      [] n \in {80, 81} -> "sonagi"
      [] n \in {95, 96, 99} -> "cheondungbeongae"
      [] OTHER -> ""

\* this.weatherMap[code] || fallback
LabelOr(c, fallback) ==
    IF c.kind = "number" /\ weatherMap(c.n) # "" THEN weatherMap(c.n) ELSE fallback

\* public/client.js ThemeManager.getThemeFromWeatherCode
ThemeManager_getThemeFromWeatherCode(c) ==
    IF StrictEq(c, 0) THEN Theme("#00C6BD", "clear", "malgeum")
    ELSE IF \E k \in {1, 2, 3, 45, 48} : StrictEq(c, k)
        THEN Theme("#8E8E93", "clouds", LabelOr(c, "heurim"))
    ELSE IF Between(c, 51, 67) \/ Between(c, 80, 82)
        THEN Theme("#4A90E2", "rain", LabelOr(c, "bi"))
    ELSE IF Between(c, 71, 77) \/ StrictEq(c, 85) \/ StrictEq(c, 86)
        THEN Theme("#B8C5D6", "snow", LabelOr(c, "nun"))
    ELSE IF Between(c, 95, 99)
        THEN Theme("#4A90E2", "thunderstorm", "cheondungbeongae")
    ELSE DefaultTheme

----------------------------------------------------------------------------
(* The mapping applied to a drawn code *)

\* no code drawn: the mapping is not under test
InitThemeIdle ==
    /\ code = Undefined
    /\ serverTheme = NoTheme
    /\ clientTheme = NoTheme

\* a code is drawn for the mapping
InitThemeDrawn ==
    /\ code \in CodeInputs
    /\ serverTheme = NoTheme
    /\ clientTheme = NoTheme

ApplyServerMapping ==
    /\ serverTheme = NoTheme
    /\ serverTheme' = getThemeFromWeatherCode(code)
    /\ UNCHANGED <<code, clientTheme, outsideTheme>>

ApplyClientMapping ==
    /\ clientTheme = NoTheme
    /\ clientTheme' = ThemeManager_getThemeFromWeatherCode(code)
    /\ UNCHANGED <<code, serverTheme, outsideTheme>>

NextTheme == ApplyServerMapping \/ ApplyClientMapping

----------------------------------------------------------------------------
(* GET /api/weather *)

\* the body response.json() settles with
Body(k, hasCw, wc, t) ==
    [kind |-> k, hasCurrent |-> hasCw, weathercode |-> wc, temperature |-> t]
BodyPending    == Body("pending", FALSE, Undefined, 0)
\* response.json() rejects with a SyntaxError
BodyUnparsable == Body("unparsable", FALSE, Undefined, 0)
\* the JSON text null
BodyNull       == Body("null", FALSE, Undefined, 0)
\* a JSON object without current_weather
BodyNoCurrent  == Body("object", FALSE, Undefined, 0)

UpstreamBodies ==
    {BodyUnparsable, BodyNull, BodyNoCurrent}
    \cup {Body("object", TRUE, c, t) : c \in CodeInputs, t \in TempInputs}

NoWeather == [code |-> Undefined, temp |-> 0, description |-> ""]

Response(st, ok, th, err, w) ==
    [status |-> st, success |-> ok, theme |-> th, error |-> err, weather |-> w]
NoResponse == Response(0, FALSE, NoTheme, "", NoWeather)

WeatherCatch_status500(message) ==
    Response(500, FALSE, DefaultTheme, message, NoWeather)

\* the catch block: res.json({success:false, theme:<default>, error: error.message})
WeatherCatch(message) ==
    Response(200, FALSE, DefaultTheme, message, NoWeather)

\* the try block after response.json() has settled with body b
WeatherTry(b) ==
    IF b.kind = "unparsable" THEN WeatherCatch("SyntaxError")
    ELSE IF b.kind = "null" \/ ~b.hasCurrent THEN WeatherCatch("TypeError")
    ELSE LET theme == getThemeFromWeatherCode(b.weathercode)
         IN  Response(200, TRUE, theme, "",
                 [code |-> b.weathercode,
                  temp |-> MathRound10(b.temperature),
                  description |-> theme.label])

InitWeather ==
    /\ wpc = "idle"
    /\ wfetch = "pending"
    /\ wbody = BodyPending
    /\ wres = NoResponse

\* the handler runs to `await fetch(...)`
WeatherGet ==
    /\ wpc = "idle"
    /\ wpc' = "awaitFetch"
    /\ UNCHANGED <<wfetch, wbody, wres, outsideWeather>>

\* Open-Meteo (or the network) settles the fetch promise; it may never do so
UpstreamSettlesFetch ==
    /\ wpc = "awaitFetch" /\ wfetch = "pending"
    /\ wfetch' \in {"rejected", "ok", "notok"}
    /\ UNCHANGED <<wpc, wbody, wres, outsideWeather>>

\* the handler resumes after `await fetch(...)`; message nalssi API hochul silpae
\* is '날씨 API 호출 실패'
WeatherAfterFetch ==
    /\ wpc = "awaitFetch" /\ wfetch # "pending"
    /\ IF wfetch = "rejected"
         THEN wpc' = "done" /\ wres' = WeatherCatch("fetch failed")
       ELSE IF wfetch = "notok"
         THEN wpc' = "done" /\ wres' = WeatherCatch("nalssi API hochul silpae")
       ELSE wpc' = "awaitJson" /\ wres' = wres
    /\ UNCHANGED <<wfetch, wbody, outsideWeather>>

\* the body arrives and response.json() settles; it may never do so
UpstreamSettlesJson ==
    /\ wpc = "awaitJson" /\ wbody = BodyPending
    /\ wbody' \in UpstreamBodies
    /\ UNCHANGED <<wpc, wfetch, wres, outsideWeather>>

\* the handler resumes after `await response.json()`
WeatherAfterJson ==
    /\ wpc = "awaitJson" /\ wbody # BodyPending
    /\ wpc' = "done"
    /\ wres' = WeatherTry(wbody)
    /\ UNCHANGED <<wfetch, wbody, outsideWeather>>

WeatherHandlerStep == WeatherGet \/ WeatherAfterFetch \/ WeatherAfterJson

NextWeather ==
    \/ WeatherGet
    \/ UpstreamSettlesFetch
    \/ WeatherAfterFetch
    \/ UpstreamSettlesJson
    \/ WeatherAfterJson

----------------------------------------------------------------------------
(* public/client.js: the browser asks Open-Meteo itself *)

\* the weather indicator: #weather-label and #weather-temp ("" and no number
\* until written)
Indicator(l, hasT, t) == [label |-> l, hasTemp |-> hasT, temp |-> t]

\* the bodies of the `current=temperature_2m,weathercode` endpoint; an object
\* with `current` may lack weathercode
ClientBodies ==
    {BodyUnparsable, BodyNull, BodyNoCurrent}
    \cup {Body("object", TRUE, c, t) : c \in CodeInputs, t \in TempInputs}

\* data.current?.weathercode ?? 0
ClientWeatherCode(b) ==
    IF b.hasCurrent /\ b.weathercode.kind = "number" THEN b.weathercode ELSE Num(0)

\* Math.round(data.current?.temperature_2m ?? 0)
ClientTemp(b) == MathRound10(IF b.hasCurrent THEN b.temperature ELSE 0)

\* response.json() rejects, or `data.current` is read of null: the catch block
ClientJsonThrows(b) == b.kind \in {"unparsable", "null"}

InitClient ==
    /\ cgeo = "unread"
    /\ cpc = "idle"
    /\ cposition = "pending"
    /\ cfetch = "pending"
    /\ cbody = BodyPending
    /\ currentTheme = NoTheme
    /\ indicator = Indicator("", FALSE, 0)

\* ThemeManager.applyTheme(theme): AppState.currentTheme and the label
applyTheme(theme) ==
    /\ currentTheme' = theme
    /\ indicator' = [indicator EXCEPT !.label = theme.label]

\* applyTheme(theme) followed by updateWeatherIndicator(theme, temp)
applyThemeAndTemp(theme, temp) ==
    /\ currentTheme' = theme
    /\ indicator' = Indicator(theme.label, TRUE, temp)

\* loadWeatherTheme runs to its first await: the position promise, or the
\* fetch of fetchWeatherAndApply(DEFAULT_LAT, DEFAULT_LON)
ClientLoadWeatherTheme ==
    /\ cpc = "idle"
    /\ cgeo' \in {"present", "absent"}
    /\ cpc' = IF cgeo' = "present" THEN "awaitGeo" ELSE "awaitFetch"
    /\ UNCHANGED <<cposition, cfetch, cbody, currentTheme, indicator,
                   outsideClient>>

\* getCurrentPosition answers: a position, or an error (denied, 3 s timeout)
\* that .catch(() => null) turns into null
ClientGeoSettles ==
    /\ cpc = "awaitGeo" /\ cposition = "pending"
    /\ cposition' \in {"granted", "null"}
    /\ UNCHANGED <<cgeo, cpc, cfetch, cbody, currentTheme, indicator,
                   outsideClient>>

\* loadWeatherTheme resumes and calls fetchWeatherAndApply(latitude, longitude)
ClientAfterGeo ==
    /\ cpc = "awaitGeo" /\ cposition # "pending"
    /\ cpc' = "awaitFetch"
    /\ UNCHANGED <<cgeo, cposition, cfetch, cbody, currentTheme, indicator,
                   outsideClient>>

ClientUpstreamSettlesFetch ==
    /\ cpc = "awaitFetch" /\ cfetch = "pending"
    /\ cfetch' \in {"rejected", "ok", "notok"}
    /\ UNCHANGED <<cgeo, cpc, cposition, cbody, currentTheme, indicator,
                   outsideClient>>

\* fetchWeatherAndApply resumes after `await fetch(...)`
ClientAfterFetch ==
    /\ cpc = "awaitFetch" /\ cfetch # "pending"
    /\ IF cfetch = "ok"
         THEN cpc' = "awaitJson" /\ UNCHANGED <<currentTheme, indicator>>
         ELSE cpc' = "done" /\ applyTheme(DefaultTheme)
    /\ UNCHANGED <<cgeo, cposition, cfetch, cbody, outsideClient>>

ClientUpstreamSettlesJson ==
    /\ cpc = "awaitJson" /\ cbody = BodyPending
    /\ cbody' \in ClientBodies
    /\ UNCHANGED <<cgeo, cpc, cposition, cfetch, currentTheme, indicator,
                   outsideClient>>

\* fetchWeatherAndApply resumes after `await response.json()`
ClientAfterJson ==
    /\ cpc = "awaitJson" /\ cbody # BodyPending
    /\ cpc' = "done"
    /\ IF ClientJsonThrows(cbody)
         THEN applyTheme(DefaultTheme)
         ELSE applyThemeAndTemp(
                  ThemeManager_getThemeFromWeatherCode(ClientWeatherCode(cbody)),
                  ClientTemp(cbody))
    /\ UNCHANGED <<cgeo, cposition, cfetch, cbody, outsideClient>>

ClientStep == ClientLoadWeatherTheme \/ ClientAfterGeo \/ ClientAfterFetch \/ ClientAfterJson

NextClient ==
    \/ ClientLoadWeatherTheme
    \/ ClientGeoSettles
    \/ ClientAfterGeo
    \/ ClientUpstreamSettlesFetch
    \/ ClientAfterFetch
    \/ ClientUpstreamSettlesJson
    \/ ClientAfterJson

----------------------------------------------------------------------------
(* client.js: the browser asks GET /api/weather *)

Result(k, r) == [kind |-> k, res |-> r]
ResultPending    == Result("pending", NoResponse)
\* response.json() rejects
ResultUnparsable == Result("unparsable", NoResponse)

\* what GET /api/weather can answer
ServerWeatherResponses ==
    {WeatherTry(b) : b \in UpstreamBodies}
    \cup {WeatherCatch("fetch failed"), WeatherCatch("nalssi API hochul silpae")}

InitProxy ==
    /\ pgeo = "unread"
    /\ ppc = "idle"
    /\ ppath = "none"
    /\ pfetch = "pending"
    /\ presult = ResultPending
    /\ proxyTheme = NoTheme
    /\ proxyIndicator = Indicator("", FALSE, 0)
    /\ unhandledRejection = FALSE

\* loadWeatherTheme: with geolocation it registers the two callbacks and
\* returns; without, it awaits API.getWeather() inside its try block
ProxyLoadWeatherTheme ==
    /\ ppc = "idle"
    /\ pgeo' \in {"present", "absent"}
    /\ IF pgeo' = "present"
         THEN ppc' = "awaitGeo" /\ ppath' = ppath
         ELSE ppc' = "awaitFetch" /\ ppath' = "noGeo"
    /\ UNCHANGED <<pfetch, presult, proxyTheme, proxyIndicator,
                   unhandledRejection, outsideProxy>>

\* the browser calls the success or the error callback, an async function that
\* runs to `await API.getWeather(...)`
ProxyGeoCallback ==
    /\ ppc = "awaitGeo"
    /\ ppath' \in {"geoSuccess", "geoDenied"}
    /\ ppc' = "awaitFetch"
    /\ UNCHANGED <<pgeo, pfetch, presult, proxyTheme, proxyIndicator,
                   unhandledRejection, outsideProxy>>

ProxySettlesFetch ==
    /\ ppc = "awaitFetch" /\ pfetch = "pending"
    /\ pfetch' \in {"rejected", "resolved"}
    /\ UNCHANGED <<pgeo, ppc, ppath, presult, proxyTheme, proxyIndicator,
                   unhandledRejection, outsideProxy>>

\* API.fetch logs and rethrows.  Only the call made without geolocation is
\* inside loadWeatherTheme's try block; a callback's promise has no handler.
ProxyGetWeatherThrows ==
    IF ppath = "noGeo"
      THEN /\ proxyTheme' = DefaultTheme
           /\ proxyIndicator' = [proxyIndicator EXCEPT !.label = DefaultTheme.label]
           /\ UNCHANGED unhandledRejection
      ELSE /\ unhandledRejection' = TRUE
           /\ UNCHANGED <<proxyTheme, proxyIndicator>>

\* API.fetch resumes after `await fetch(...)`; it does not look at response.ok
ProxyAfterFetch ==
    /\ ppc = "awaitFetch" /\ pfetch # "pending"
    /\ IF pfetch = "resolved"
         THEN /\ ppc' = "awaitJson"
              /\ UNCHANGED <<proxyTheme, proxyIndicator, unhandledRejection>>
         ELSE /\ ppc' = "done"
              /\ ProxyGetWeatherThrows
    /\ UNCHANGED <<pgeo, ppath, pfetch, presult, outsideProxy>>

ProxySettlesJson ==
    /\ ppc = "awaitJson" /\ presult = ResultPending
    /\ presult' \in {ResultUnparsable}
                    \cup {Result("json", r) : r \in ServerWeatherResponses}
    /\ UNCHANGED <<pgeo, ppc, ppath, pfetch, proxyTheme, proxyIndicator,
                   unhandledRejection, outsideProxy>>

\* API.fetch returns the parsed body; the caller applies result.theme and, in
\* the callbacks, writes result.weather.temp when result.weather is there
ProxyAfterJson ==
    /\ ppc = "awaitJson" /\ presult # ResultPending
    /\ ppc' = "done"
    /\ IF presult.kind = "unparsable"
         THEN ProxyGetWeatherThrows
         ELSE /\ proxyTheme' = presult.res.theme
              /\ proxyIndicator' =
                    IF ppath # "noGeo" /\ presult.res.success
                      THEN Indicator(presult.res.theme.label, TRUE,
                                     presult.res.weather.temp)
                      ELSE [proxyIndicator EXCEPT !.label = presult.res.theme.label]
              /\ UNCHANGED unhandledRejection
    /\ UNCHANGED <<pgeo, ppath, pfetch, presult, outsideProxy>>

ProxyStep == ProxyLoadWeatherTheme \/ ProxyGeoCallback \/ ProxyAfterFetch \/ ProxyAfterJson

NextProxy ==
    \/ ProxyLoadWeatherTheme
    \/ ProxyGeoCallback
    \/ ProxySettlesFetch
    \/ ProxyAfterFetch
    \/ ProxySettlesJson
    \/ ProxyAfterJson

----------------------------------------------------------------------------
(* The posts table and the posts handlers of api/index.js *)

\* a field the request body does not have (undefined), and SQL/JSON null
Absent == "<undefined>"
Null   == "<null>"

\* !v for a string or an absent field
Falsy(v) == v \in {Absent, Null, ""}

Ids == 1..MaxListed

\* the ids requests are made with: 1 .. MaxPosts and every id the table has
\* assigned so far
RequestIds == {i \in Ids : i <= MaxPosts \/ i < nextId}

Row(e, i, t, c, x, th, v, ca, ua) ==
    [exists |-> e, id |-> i, title |-> t, content |-> c, excerpt |-> x,
     thumbnail |-> th, view_count |-> v, created_at |-> ca, updated_at |-> ua]
NoRow == Row(FALSE, 0, "", "", "", "", 0, 0, 0)

ReqBody(t, c, x, th) == [title |-> t, content |-> c, excerpt |-> x, thumbnail |-> th]
NoBody == ReqBody(Absent, Absent, Absent, Absent)

\* the request bodies drawn: two complete ones, and bodies whose title or
\* content is missing or empty
Bodies ==
    {ReqBody("t1", "c1", Absent, Absent),
     ReqBody("t2", "c2", "e2", "img2"),
     ReqBody(Absent, "c1", "e2", Absent),
     ReqBody("", "c1", Absent, Absent),
     ReqBody("t1", Absent, Absent, "img2"),
     ReqBody("t1", "", Absent, Absent),
     NoBody}

\* the defaults of the table's columns: view_count 0, created_at and
\* updated_at the time of the insert
DefaultViewCount == 0
InsertRow(i, b, t) ==
    Row(TRUE, i, b.title, b.content, b.excerpt, b.thumbnail, DefaultViewCount, t, t)

\* a query result of supabase-js: {data, error}
QueryResult(d, e) == [data |-> d, error |-> e]

\* the request to Supabase itself failed
StoreError == QueryResult(NoRow, "StoreError")

\* .eq('id', id): the rows the filter matches
RowsWithId(i) == IF table[i].exists THEN {table[i]} ELSE {}

\* .single(): the one row, or an error when the result is not exactly one row
\* (PostgREST PGRST116)
single(rows) ==
    IF Cardinality(rows) = 1
      THEN QueryResult(CHOOSE r \in rows : TRUE, "")
      ELSE QueryResult(NoRow, "PGRST116")

\* a request: the handler, the :id of the path (0 when the path has none)
\* and the JSON body (NoBody when the request has none)
Req(op, i, b) == [op |-> op, id |-> i, body |-> b]

\* a response, with the request it answers and what its one database call
\* met: the number of rows the id matched, and whether the call itself failed
PostRes(req, rows, failed, st, ok, err, post) ==
    [req |-> req, rows |-> rows, storeFailed |-> failed,
     status |-> st, success |-> ok, error |-> err, post |-> post]
NoPostRes == PostRes(Req("none", 0, NoBody), 0, FALSE, 0, FALSE, "", NoRow)

Catch500_noStatus(req, rows, failed, message) ==
    PostRes(req, rows, failed, 200, FALSE, message, NoRow)

\* the catch block of every posts handler:
\* res.status(500).json({success:false, error: error.message})
Catch500(req, rows, failed, message) ==
    PostRes(req, rows, failed, 500, FALSE, message, NoRow)

CreateInvalid_and(b) == Falsy(b.title) /\ Falsy(b.content)

\* !title || !content
CreateInvalid(b) == Falsy(b.title) \/ Falsy(b.content)

InsertValues_swapsTitleContent(b) ==
    ReqBody(b.content, b.title,
            IF Falsy(b.excerpt) THEN "" ELSE b.excerpt,
            IF Falsy(b.thumbnail) THEN Null ELSE b.thumbnail)

\* the values of .insert([{title, content, excerpt: excerpt || '',
\* thumbnail: thumbnail || null}])
InsertValues(b) ==
    ReqBody(b.title, b.content,
            IF Falsy(b.excerpt) THEN "" ELSE b.excerpt,
            IF Falsy(b.thumbnail) THEN Null ELSE b.thumbnail)

\* (data.view_count || 0) + 1
IncrementValue(data) == (IF data.view_count = 0 THEN 0 ELSE data.view_count) + 1

\* .update({title, content, excerpt, thumbnail, updated_at}): the request is
\* JSON, in which a property whose value is undefined is left out, so its
\* column is not written
UpdatedRow(r, b, t) ==
    [r EXCEPT !.title = IF b.title = Absent THEN @ ELSE b.title,
              !.content = IF b.content = Absent THEN @ ELSE b.content,
              !.excerpt = IF b.excerpt = Absent THEN @ ELSE b.excerpt,
              !.thumbnail = IF b.thumbnail = Absent THEN @ ELSE b.thumbnail,
              !.updated_at = t]

\* f[1] + ... + f[n]
RECURSIVE SumTo(_, _)
SumTo(f, n) == IF n = 0 THEN 0 ELSE f[n] + SumTo(f, n - 1)

\* view_count writes of post i in flight
Pending(i) == SumTo(incs[i], MaxViews)

InitPosts ==
    /\ table = [i \in Ids |-> NoRow]
    /\ nextId = 1
    /\ now = 0
    /\ incs = [i \in Ids |-> [v \in 1..MaxViews |-> 0]]
    /\ lastRes = NoPostRes
    /\ created = [i \in Ids |-> NoBody]
    /\ fetched = [i \in Ids |-> 0]
    /\ incFailed = [i \in Ids |-> 0]
    /\ incLogged = [i \in Ids |-> 0]
    /\ updates = [i \in Ids |-> 0]
    /\ removed = {}

\* time passes
Tick ==
    /\ now < MaxTime
    /\ now' = now + 1
    /\ UNCHANGED <<table, nextId, incs, lastRes, created, fetched, incFailed, incLogged,
                   updates, removed, outsidePosts>>

\* POST /api/posts, while fewer than n posts have been created; message pilsu
\* is '제목과 내용은 필수입니다.'
CreatePostUpTo(n) ==
    \E b \in Bodies, fail \in BOOLEAN :
        LET req == Req("create", 0, b)
        IN  /\ IF CreateInvalid(b)
                 THEN /\ lastRes' = PostRes(req, 0, FALSE, 400, FALSE, "pilsu", NoRow)
                      /\ UNCHANGED <<table, nextId, created>>
               ELSE IF fail
                 THEN /\ lastRes' = Catch500(req, 0, TRUE, StoreError.error)
                      /\ UNCHANGED <<table, nextId, created>>
               ELSE /\ nextId <= n
                    /\ table' = [table EXCEPT ![nextId] =
                                     InsertRow(nextId, InsertValues(b), now)]
                    /\ nextId' = nextId + 1
                    /\ created' = [created EXCEPT ![nextId] = b]
                    /\ lastRes' = PostRes(req, 0, FALSE, 201, TRUE, "", table'[nextId])
            /\ UNCHANGED <<now, incs, fetched, incFailed, incLogged, updates, removed,
                           outsidePosts>>

CreatePost == CreatePostUpTo(MaxPosts)

\* the same handler where the table may fill up
CreateListed == CreatePostUpTo(MaxListed)

\* GET /api/posts/:id, up to its response: the select, then the view_count
\* write is sent (not awaited) and the post is answered; message chajeul su
\* eopseumnida is '게시글을 찾을 수 없습니다.'
GetPostUpTo(n) ==
    \E i \in RequestIds, fail \in BOOLEAN :
        LET req  == Req("get", i, NoBody)
            rows == Cardinality(RowsWithId(i))
            q    == IF fail THEN StoreError ELSE single(RowsWithId(i))
        IN  /\ IF q.error # ""
                 THEN /\ lastRes' = Catch500(req, rows, fail, q.error)
                      /\ UNCHANGED <<incs, fetched>>
               ELSE IF q.data = NoRow
                 THEN /\ lastRes' = PostRes(req, rows, fail, 404, FALSE,
                                            "chajeul su eopseumnida", NoRow)
                      /\ UNCHANGED <<incs, fetched>>
               ELSE /\ SumTo(fetched, MaxListed) < n
                    /\ incs' = [incs EXCEPT ![i][IncrementValue(q.data)] = @ + 1]
                    /\ fetched' = [fetched EXCEPT ![i] = @ + 1]
                    /\ lastRes' = PostRes(req, rows, fail, 200, TRUE, "", q.data)
            /\ UNCHANGED <<table, nextId, now, created, incFailed, incLogged, updates, removed,
                           outsidePosts>>

GetPost == GetPostUpTo(MaxGets)

\* the same handler where more detail fetches are answered
GetViewed == GetPostUpTo(MaxViews)

\* Supabase executes a view_count write: update({view_count: v}).eq('id', i).
\* Its result, error or not, goes to .then(), which is given no callback: the
\* result is dropped, nothing is written to the console and, the query
\* resolving with {error} instead of rejecting, no promise is rejected.
ApplyIncrement ==
    \E i \in Ids, v \in 1..MaxViews, fail \in BOOLEAN :
        /\ incs[i][v] > 0
        /\ incs' = [incs EXCEPT ![i][v] = @ - 1]
        /\ IF fail
             THEN /\ incFailed' = [incFailed EXCEPT ![i] = @ + 1]
                  /\ UNCHANGED table
             ELSE /\ table' = IF table[i].exists
                                THEN [table EXCEPT ![i].view_count = v]
                                ELSE table
                  /\ UNCHANGED incFailed
        /\ UNCHANGED <<nextId, now, lastRes, created, fetched, incLogged, updates,
                       removed, outsidePosts>>

\* PUT /api/posts/:id
UpdatePost ==
    \E i \in RequestIds, b \in Bodies, fail \in BOOLEAN :
        LET req  == Req("update", i, b)
            rows == Cardinality(RowsWithId(i))
            q    == IF fail THEN StoreError
                    ELSE single({UpdatedRow(r, b, now) : r \in RowsWithId(i)})
        IN  /\ IF q.error # ""
                 THEN /\ lastRes' = Catch500(req, rows, fail, q.error)
                      /\ UNCHANGED <<table, updates>>
                 ELSE /\ SumTo(updates, MaxListed) < MaxUpdates
                      /\ table' = [table EXCEPT ![i] = q.data]
                      /\ updates' = [updates EXCEPT ![i] = @ + 1]
                      /\ lastRes' = PostRes(req, rows, fail, 200, TRUE, "", q.data)
            /\ UNCHANGED <<nextId, now, incs, created, fetched, incFailed, incLogged, removed,
                           outsidePosts>>

\* DELETE /api/posts/:id; message sakje is '게시글이 삭제되었습니다.' (the body's
\* message field, kept in the error field of the response record)
DeletePost ==
    \E i \in RequestIds, fail \in BOOLEAN :
        LET req  == Req("delete", i, NoBody)
            rows == Cardinality(RowsWithId(i))
        IN  /\ IF fail
                 THEN /\ lastRes' = Catch500(req, rows, TRUE, StoreError.error)
                      /\ UNCHANGED <<table, removed>>
                 ELSE /\ table' = [table EXCEPT ![i] = NoRow]
                      /\ removed' = IF rows > 0 THEN removed \cup {i} ELSE removed
                      /\ lastRes' = PostRes(req, rows, FALSE, 200, TRUE, "", NoRow)
            /\ UNCHANGED <<nextId, now, incs, created, fetched, incFailed, incLogged, updates,
                           outsidePosts>>

\* const { page = 1, limit = 10 } = req.query
DefaultPage == 1
DefaultLimit == 10
DefaultTo(v, d) == IF v.kind = "undefined" THEN d ELSE v.n

\* the query strings drawn for page and limit: numerals from 1 up, or none
PageInputs  == {Undefined} \cup {Num(n) : n \in 1..MaxPage}
LimitInputs == {Undefined} \cup {Num(n) : n \in 1..MaxLimit}

\* Math.ceil(a / b) for a >= 0 and b >= 1
MathCeilDiv(a, b) == (a + b - 1) \div b

\* the ids of the rows of the table
Stored == {i \in Ids : table[i].exists}

\* .order('created_at', { ascending: false }): the rows sorted by created_at
\* descending and by nothing else, so rows of equal created_at come in any
\* order, and not in the same order in every query
Orders ==
    {s \in [1..Cardinality(Stored) -> Stored] :
        /\ \A j, k \in 1..Cardinality(Stored) : j # k => s[j] # s[k]
        /\ \A j, k \in 1..Cardinality(Stored) :
              j < k => table[s[j]].created_at >= table[s[k]].created_at}

Projected_selectStar(r) ==
    [id |-> r.id, title |-> r.title, content |-> r.content, excerpt |-> r.excerpt,
     thumbnail |-> r.thumbnail, created_at |-> r.created_at,
     updated_at |-> r.updated_at, view_count |-> r.view_count]

\* .select('id, title, excerpt, thumbnail, created_at, view_count')
Projected(r) ==
    [id |-> r.id, title |-> r.title, excerpt |-> r.excerpt,
     thumbnail |-> r.thumbnail, created_at |-> r.created_at,
     view_count |-> r.view_count]

\* .range(from, to) with { count: 'exact' } on the ordered rows: the rows at
\* offsets from .. to; PostgREST refuses an offset above the row count
\* (PGRST103, 416 Requested range not satisfiable)
range(order, from, to) ==
    IF from > Len(order)
      THEN [data |-> <<>>, error |-> "PGRST103", count |-> 0]
      ELSE [data |-> [j \in 1..((IF to + 1 < Len(order) THEN to + 1 ELSE Len(order)) - from)
                        |-> Projected(table[order[from + j]])],
            error |-> "", count |-> Len(order)]

ListStoreError == [data |-> <<>>, error |-> "StoreError", count |-> 0]

ListReq(p, l) == [op |-> "list", id |-> 0, body |-> NoBody, page |-> p, limit |-> l]

Pagination(p, l, t, tp) == [page |-> p, limit |-> l, total |-> t, totalPages |-> tp]

\* the 200 answer of the list: {success, posts, pagination}
ListRes(req, rows, posts, pagination) ==
    [req |-> req, rows |-> rows, storeFailed |-> FALSE,
     status |-> 200, success |-> TRUE, error |-> "", post |-> NoRow,
     posts |-> posts, pagination |-> pagination]

\* GET /api/posts
ListPosts ==
    \E p \in PageInputs, l \in LimitInputs, fail \in BOOLEAN, order \in Orders :
        LET req    == ListReq(p, l)
            page   == DefaultTo(p, DefaultPage)
            limit  == DefaultTo(l, DefaultLimit)
            offset == (page - 1) * limit
            q      == IF fail THEN ListStoreError
                      ELSE range(order, offset, offset + limit - 1)
        IN  /\ lastRes' =
                  IF q.error # ""
                    THEN Catch500(req, Cardinality(Stored), fail, q.error)
                    ELSE ListRes(req, Cardinality(Stored), q.data,
                                 Pagination(page, limit, q.count,
                                            MathCeilDiv(q.count, limit)))
            /\ UNCHANGED <<table, nextId, now, incs, created, fetched, incFailed, incLogged,
                           updates, removed, outsidePosts>>

NextPosts ==
    \/ Tick
    \/ ListPosts
    \/ CreatePost
    \/ GetPost
    \/ ApplyIncrement
    \/ UpdatePost
    \/ DeletePost

\* the view counter: creates, detail fetches and their view_count writes
NextViews ==
    \/ CreatePost
    \/ GetViewed
    \/ ApplyIncrement

\* the list over a table that fills up: creates, deletes and list requests
NextList ==
    \/ Tick
    \/ CreateListed
    \/ DeletePost
    \/ ListPosts

----------------------------------------------------------------------------
(* ThemeManager.darken of public/client.js and client.js (the same text) *)

\* the colors drawn, as the hex digits after '#': the theme colors 00C6BD,
\* 8E8E93, 4A90E2 and B8C5D6, then FFFFFF, 000000, 0A1B05 and 7F8081
HexInputs ==
    {<<0, 0, 12, 6, 11, 13>>, <<8, 14, 8, 14, 9, 3>>, <<4, 10, 9, 0, 14, 2>>,
     <<11, 8, 12, 5, 13, 6>>, <<15, 15, 15, 15, 15, 15>>, <<0, 0, 0, 0, 0, 0>>,
     <<0, 10, 1, 11, 0, 5>>, <<7, 15, 8, 0, 8, 1>>}

\* parseInt(digits, 16)
RECURSIVE parseInt16(_)
parseInt16(digits) ==
    IF digits = <<>> THEN 0
    ELSE 16 * parseInt16(SubSeq(digits, 1, Len(digits) - 1)) + digits[Len(digits)]

\* n.toString(16), as hex digits
RECURSIVE toString16(_)
toString16(n) ==
    IF n < 16 THEN <<n>> ELSE Append(toString16(n \div 16), n % 16)

\* the number of bits of n
RECURSIVE BitLength(_)
BitLength(n) == IF n = 0 THEN 0 ELSE 1 + BitLength(n \div 2)

\* the IEEE-754 double nearest to 2.55 is 0x14666666666666 * 2^-51; its
\* significand in 16-bit limbs, least significant first
Double255 == <<26214, 26214, 26214, 20>>

\* Math.round(2.55 * percent) in double arithmetic: the exact product of the
\* double 2.55 and percent in limbs (d0, d1, d2 of 16 bits and hi above them),
\* rounded to a significand of 53 bits, ties to even, as the multiplication
\* does; then rounded to the nearest integer, ties upwards, as Math.round does
MathRound255(percent) ==
    LET c0  == percent * Double255[1]
        d0  == c0 % 65536
        c1  == percent * Double255[2] + c0 \div 65536
        d1  == c1 % 65536
        c2  == percent * Double255[3] + c1 \div 65536
        d2  == c2 % 65536
        hi  == percent * Double255[4] + c2 \div 65536
        k   == IF BitLength(hi) > 5 THEN BitLength(hi) - 5 ELSE 0
        r   == d0 % (2 ^ k)
        up  == /\ k > 0
               /\ \/ 2 * r > 2 ^ k
                  \/ 2 * r = 2 ^ k /\ (d0 \div (2 ^ k)) % 2 = 1
        d0r == d0 - r + (IF up THEN 2 ^ k ELSE 0)
        d1r == d1 + d0r \div 65536
        d2r == d2 + d1r \div 65536
        hir == hi + d2r \div 65536
    IN  ((hir \div 4) + 1) \div 2

\* Math.max(0, v)
MathMax0(v) == IF v > 0 THEN v ELSE 0

\* darken(hex, percent), hex and the result given as the digits after '#'
darken(hex, percent) ==
    LET num == parseInt16(hex)
        amt == MathRound255(percent)
        R   == MathMax0((num \div 65536) - amt)
        G   == MathMax0(((num \div 256) % 256) - amt)
        B   == MathMax0((num % 256) - amt)
    IN  Tail(toString16(16777216 + R * 65536 + G * 256 + B))

InitDarkenIdle  == dhex = <<>> /\ dpercent = 0 /\ dresult = <<>>
InitDarkenDrawn == dhex \in HexInputs /\ dpercent \in 0..MaxPercent /\ dresult = <<>>

\* a call of darken on the drawn color and percent
Darken ==
    /\ dhex # <<>> /\ dresult = <<>>
    /\ dresult' = darken(dhex, dpercent)
    /\ UNCHANGED <<dhex, dpercent, outsideDarken>>

NextDarken == Darken

----------------------------------------------------------------------------
(* server.js: app.listen and the SIGTERM handler *)

Conns == 1..MaxConns

\* connections the server holds open
Open == {c \in Conns : connections[c] \in {"idle", "busy"}}

InitShutdown ==
    /\ listening = TRUE
    /\ connections = [c \in Conns |-> "none"]
    /\ closeCallbacks = 0
    /\ exitCode = "running"
    /\ busyAtSigterm = {}

\* the listening socket accepts a connection
Accept(c) ==
    /\ exitCode = "running" /\ listening
    /\ connections[c] = "none"
    /\ connections' = [connections EXCEPT ![c] = "idle"]
    /\ UNCHANGED <<listening, closeCallbacks, exitCode, busyAtSigterm,
                   outsideShutdown>>

\* a request arrives on an open connection and its handler starts
RequestArrives(c) ==
    /\ exitCode = "running"
    /\ connections[c] = "idle"
    /\ connections' = [connections EXCEPT ![c] = "busy"]
    /\ UNCHANGED <<listening, closeCallbacks, exitCode, busyAtSigterm,
                   outsideShutdown>>

\* the handler has written its response; the connection is kept alive
RequestCompletes(c) ==
    /\ exitCode = "running"
    /\ connections[c] = "busy"
    /\ connections' = [connections EXCEPT ![c] = "idle"]
    /\ UNCHANGED <<listening, closeCallbacks, exitCode, busyAtSigterm,
                   outsideShutdown>>

\* a connection with no request in progress ends: the client closes it, its
\* keep-alive timeout passes, or the closing server closes it as idle
ConnectionEnds(c) ==
    /\ exitCode = "running"
    /\ connections[c] = "idle"
    /\ connections' = [connections EXCEPT ![c] = "ended"]
    /\ UNCHANGED <<listening, closeCallbacks, exitCode, busyAtSigterm,
                   outsideShutdown>>

\* process.on('SIGTERM', ...): server.close(callback) closes the listening
\* socket and keeps the callback for the 'close' event; on a server that has
\* stopped listening it keeps the callback all the same
Sigterm ==
    /\ exitCode = "running"
    /\ closeCallbacks < MaxSigterms
    /\ listening' = FALSE
    /\ closeCallbacks' = closeCallbacks + 1
    /\ busyAtSigterm' = busyAtSigterm \cup {c \in Conns : connections[c] = "busy"}
    /\ UNCHANGED <<connections, exitCode, outsideShutdown>>

Drained_always == TRUE

\* net.Server emits 'close' once the listening socket is closed and no
\* connection is left
Drained == ~listening /\ Open = {}

\* the callback of server.close: process.exit(0)
CloseCallback ==
    /\ exitCode = "running"
    /\ closeCallbacks > 0
    /\ Drained
    /\ exitCode' = "0"
    /\ UNCHANGED <<listening, connections, closeCallbacks, busyAtSigterm,
                   outsideShutdown>>

NextShutdown ==
    \/ \E c \in Conns : Accept(c)
    \/ \E c \in Conns : RequestArrives(c)
    \/ \E c \in Conns : RequestCompletes(c)
    \/ \E c \in Conns : ConnectionEnds(c)
    \/ Sigterm
    \/ CloseCallback

----------------------------------------------------------------------------
(* UI.renderPagination of public/client.js and client.js (the same text) *)

\* a button of #pagination: "prev", "page" or "next", the page its onclick
\* hands to Router.loadPage, and whether it is drawn as the active page
Button(k, t, a) == [kind |-> k, target |-> t, active |-> a]

Unrendered == <<Button("none", 0, FALSE)>>

RECURSIVE PageButtons(_, _)
\* the buttons of `for (let i = 1; i <= pagination.totalPages; i++)`, up to i = n
PageButtons(pagination, n) ==
    IF n <= 0 THEN <<>>
    ELSE Append(PageButtons(pagination, n - 1), Button("page", n, n = pagination.page))

renderPagination_nextAtLastPage(pagination) ==
    IF pagination.totalPages <= 1 THEN <<>>
    ELSE (IF pagination.page > 1
            THEN <<Button("prev", pagination.page - 1, FALSE)>> ELSE <<>>)
         \o PageButtons(pagination, pagination.totalPages)
         \o (IF pagination.page <= pagination.totalPages
               THEN <<Button("next", pagination.page + 1, FALSE)>> ELSE <<>>)

\* the innerHTML of #pagination after renderPagination(pagination)
renderPagination(pagination) ==
    IF pagination.totalPages <= 1 THEN <<>>
    ELSE (IF pagination.page > 1
            THEN <<Button("prev", pagination.page - 1, FALSE)>> ELSE <<>>)
         \o PageButtons(pagination, pagination.totalPages)
         \o (IF pagination.page < pagination.totalPages
               THEN <<Button("next", pagination.page + 1, FALSE)>> ELSE <<>>)

\* the pagination objects GET /api/posts answers to API.getPosts(page), which
\* sends limit = 10: page p of a table of n posts is answered with success
\* when its offset is within the table, (p - 1) * 10 <= n
PaginationsUpTo(maxTotal) ==
    UNION {{Pagination(p, DefaultLimit, n, MathCeilDiv(n, DefaultLimit)) :
               p \in {q \in 1..(n + 1) : (q - 1) * DefaultLimit <= n}} :
           n \in 0..maxTotal}

PaginationInputs == PaginationsUpTo(MaxTotal)

NoPagination == Pagination(0, 0, 0, 0)

InitPaginationIdle  == rpPagination = NoPagination /\ rpHtml = Unrendered
InitPaginationDrawn == rpPagination \in PaginationInputs /\ rpHtml = Unrendered

RenderPagination ==
    /\ rpHtml = Unrendered
    /\ rpPagination # NoPagination
    /\ rpHtml' = renderPagination(rpPagination)
    /\ UNCHANGED <<rpPagination, outsidePagination>>

NextPagination == RenderPagination

----------------------------------------------------------------------------
(* public/client.js and client.js: the DOMContentLoaded handler and Router *)

\* a pathname as its segments: '/' is <<>>, '/post/1' is <<"post", 1>>
Root == <<>>
PostPath(id) == <<"post", id>>
PostIds == 1..MaxPostId
Paths == {Root} \cup {PostPath(id) : id \in PostIds}

\* path.startsWith('/post/')
StartsWithPost(p) == Len(p) >= 2 /\ p[1] = "post"

\* an API.getPosts(page) or API.getPost(id) call, the n-th call of the Router
ApiCall(k, a, n) == [kind |-> k, arg |-> a, n |-> n]
Answer(r, ok) == [req |-> r, ok |-> ok]
NoAnswer == Answer(ApiCall("none", 0, 0), FALSE)

InitRouter ==
    /\ started = FALSE
    /\ path = Root
    /\ visited = {Root}
    /\ listVisible = TRUE
    /\ detailVisible = FALSE
    /\ isLoading = FALSE
    /\ currentPage = 1
    /\ postsPage = 0
    /\ totalPages = 1
    /\ currentPost = 0
    /\ paginationHtml = <<>>
    /\ toast = FALSE
    /\ timers = 0
    /\ inflight = {}
    /\ requests = 0
    /\ events = 0
    /\ answered = NoAnswer
    /\ failures = 0

\* Router.showPostList up to its await: the list container is shown, the
\* detail container hidden, the loader shown, API.getPosts(page) sent
showPostList(page) ==
    /\ listVisible' = TRUE
    /\ detailVisible' = FALSE
    /\ isLoading' = TRUE
    /\ inflight' = inflight \cup {ApiCall("list", page, requests + 1)}
    /\ requests' = requests + 1

\* Router.showPostDetail(id) up to its await
showPostDetail(id) ==
    /\ isLoading' = TRUE
    /\ inflight' = inflight \cup {ApiCall("detail", id, requests + 1)}
    /\ requests' = requests + 1
    /\ UNCHANGED <<listVisible, detailVisible>>

\* Router.handleRoute() with window.location.pathname = p
handleRoute(p) ==
    IF StartsWithPost(p) THEN showPostDetail(p[2]) ELSE showPostList(currentPage)

\* Router.navigate(p): history.pushState, then handleRoute
navigate(p) ==
    /\ path' = p
    /\ visited' = visited \cup {p}
    /\ handleRoute(p)

\* the DOMContentLoaded handler resumes after `await
\* ThemeManager.loadWeatherTheme()`: Router.handleRoute(), then the listeners
StartupRoute ==
    /\ ~started
    /\ cpc = "done"
    /\ started' = TRUE
    /\ handleRoute(path)
    /\ UNCHANGED <<path, visited, currentPage, postsPage, totalPages, currentPost,
                   paginationHtml, toast, timers, events, answered, failures,
                   outsideRouter>>

\* a click on a card of the rendered list: Router.navigate('/post/${post.id}')
ClickPost(id) ==
    /\ events < MaxEvents
    /\ listVisible /\ postsPage # 0
    /\ events' = events + 1
    /\ navigate(PostPath(id))
    /\ UNCHANGED <<started, currentPage, postsPage, totalPages, currentPost,
                   paginationHtml, toast, timers, answered, failures,
                   outsideRouter>>

\* a click on the back button of the rendered post: Router.navigate('/')
ClickBack ==
    /\ events < MaxEvents
    /\ detailVisible /\ currentPost # 0
    /\ events' = events + 1
    /\ navigate(Root)
    /\ UNCHANGED <<started, currentPage, postsPage, totalPages, currentPost,
                   paginationHtml, toast, timers, answered, failures,
                   outsideRouter>>

\* the most buttons #pagination holds: one per page, previous and next
MaxButtons == MathCeilDiv(MaxRouterTotal, DefaultLimit) + 2

\* a click on a button of #pagination: Router.loadPage(target)
LoadPage(b) ==
    /\ events < MaxEvents
    /\ listVisible
    /\ b \in 1..Len(paginationHtml)
    /\ events' = events + 1
    /\ currentPage' = paginationHtml[b].target
    /\ showPostList(paginationHtml[b].target)
    /\ UNCHANGED <<started, path, visited, postsPage, totalPages, currentPost,
                   paginationHtml, toast, timers, answered, failures,
                   outsideRouter>>

\* the browser's back or forward button moves to another entry the page has
\* pushed to the session history: the popstate listener calls
\* Router.handleRoute()
Popstate(p) ==
    /\ started
    /\ events < MaxEvents
    /\ Cardinality(visited) > 1
    /\ p \in visited
    /\ events' = events + 1
    /\ path' = p
    /\ handleRoute(p)
    /\ UNCHANGED <<started, visited, currentPage, postsPage, totalPages,
                   currentPost, paginationHtml, toast, timers, answered, failures,
                   outsideRouter>>

\* UI.showError: the toast is shown
showError == toast' = TRUE

\* UI.hideLoading, in the finally block of showPostList and showPostDetail
hideLoading == isLoading' = FALSE

\* the answers of GET /api/posts the Router is given
RouterPaginations == PaginationsUpTo(MaxRouterTotal)

\* showPostList resumes with success: AppState.posts and totalPages are set,
\* the list and the pagination rendered
ListSucceeds(r, pg) ==
    /\ r \in inflight /\ r.kind = "list"
    /\ pg \in RouterPaginations /\ pg.page = r.arg
    /\ postsPage' = pg.page
    /\ totalPages' = pg.totalPages
    /\ paginationHtml' = renderPagination(pg)
    /\ hideLoading
    /\ inflight' = inflight \ {r}
    /\ answered' = Answer(r, TRUE)
    /\ UNCHANGED <<started, path, visited, listVisible, detailVisible, currentPage,
                   currentPost, toast, timers, requests, events, failures,
                   outsideRouter>>

\* showPostList resumes in its catch block: API.getPosts rejected, or the
\* answer carries success: false
ListFails(r) ==
    /\ r \in inflight /\ r.kind = "list"
    /\ showError
    /\ hideLoading
    /\ inflight' = inflight \ {r}
    /\ answered' = Answer(r, FALSE)
    /\ failures' = failures + 1
    /\ UNCHANGED <<started, path, visited, listVisible, detailVisible, currentPage,
                   postsPage, totalPages, currentPost, paginationHtml, timers,
                   requests, events, outsideRouter>>

\* showPostDetail resumes with success: AppState.currentPost is set and
\* UI.renderPost hides the list and shows the detail container
DetailSucceeds(r) ==
    /\ r \in inflight /\ r.kind = "detail"
    /\ currentPost' = r.arg
    /\ listVisible' = FALSE
    /\ detailVisible' = TRUE
    /\ hideLoading
    /\ inflight' = inflight \ {r}
    /\ answered' = Answer(r, TRUE)
    /\ UNCHANGED <<started, path, visited, currentPage, postsPage, totalPages,
                   paginationHtml, toast, timers, requests, events, failures,
                   outsideRouter>>

showPostDetailCatch_noRedirect == showError /\ UNCHANGED timers

\* the catch block of showPostDetail: the toast, and the redirect timer
showPostDetailCatch == showError /\ timers' = timers + 1

\* showPostDetail resumes in its catch block
DetailFails(r) ==
    /\ r \in inflight /\ r.kind = "detail"
    /\ showPostDetailCatch
    /\ hideLoading
    /\ inflight' = inflight \ {r}
    /\ answered' = Answer(r, FALSE)
    /\ failures' = failures + 1
    /\ UNCHANGED <<started, path, visited, listVisible, detailVisible, currentPage,
                   postsPage, totalPages, currentPost, paginationHtml, requests,
                   events, outsideRouter>>

\* a redirect timer fires after its 2000 ms: this.navigate('/')
RedirectTimer ==
    /\ timers > 0
    /\ timers' = timers - 1
    /\ navigate(Root)
    /\ UNCHANGED <<started, currentPage, postsPage, totalPages, currentPost,
                   paginationHtml, toast, events, answered, failures,
                   outsideRouter>>

\* the 3000 ms timer of UI.showError removes the class show
ToastTimer ==
    /\ toast
    /\ toast' = FALSE
    /\ UNCHANGED <<started, path, visited, listVisible, detailVisible, isLoading,
                   currentPage, postsPage, totalPages, currentPost, paginationHtml,
                   timers, inflight, requests, events, answered, failures,
                   outsideRouter>>

RouterStep ==
    \/ StartupRoute
    \/ \E id \in PostIds : ClickPost(id)
    \/ ClickBack
    \/ \E b \in 1..MaxButtons : LoadPage(b)
    \/ \E p \in Paths : Popstate(p)
    \/ \E r \in inflight : \E pg \in RouterPaginations : ListSucceeds(r, pg)
    \/ \E r \in inflight : ListFails(r)
    \/ \E r \in inflight : DetailSucceeds(r)
    \/ \E r \in inflight : DetailFails(r)
    \/ RedirectTimer
    \/ ToastTimer

\* the page from its load on; of the weather lookups, those that end with
\* the fetch settled and no body read (no geolocation, fetch rejected or not ok)
NextRouter ==
    \/ ClientLoadWeatherTheme
    \/ ClientUpstreamSettlesFetch
    \/ ClientAfterFetch
    \/ RouterStep

\* the page's start-up alone
NextStartup == NextClient \/ StartupRoute

----------------------------------------------------------------------------
(* Specifications *)

\* the state after the server has started and the page has loaded
Init ==
    InitThemeIdle /\ InitWeather /\ InitClient /\ InitProxy /\ InitPosts
        /\ InitDarkenIdle /\ InitShutdown /\ InitPaginationIdle /\ InitRouter

\* the same, with a weather code drawn for the mapping
InitDrawn ==
    InitThemeDrawn /\ InitWeather /\ InitClient /\ InitProxy /\ InitPosts
        /\ InitDarkenIdle /\ InitShutdown /\ InitPaginationIdle /\ InitRouter

\* the same as Init, with a pagination drawn for renderPagination
InitPagination ==
    InitThemeIdle /\ InitWeather /\ InitClient /\ InitProxy /\ InitPosts
        /\ InitDarkenIdle /\ InitShutdown /\ InitPaginationDrawn /\ InitRouter

\* the same as Init, with a color and a percent drawn for darken
InitDarken ==
    InitThemeIdle /\ InitWeather /\ InitClient /\ InitProxy /\ InitPosts
        /\ InitDarkenDrawn /\ InitShutdown /\ InitPaginationIdle /\ InitRouter

\* the posts API: Supabase executes every statement it has received
Spec == Init /\ [][NextPosts]_vars /\ WF_vars(ApplyIncrement)

\* detail fetches of one post and their view_count writes
SpecViews == Init /\ [][NextViews]_vars /\ WF_vars(ApplyIncrement)

\* GET /api/posts over up to MaxListed posts
SpecList == Init /\ [][NextList]_vars

\* darken alone, on a drawn color and percent
SpecDarken == InitDarken /\ [][NextDarken]_vars

\* the mapping alone, on a drawn code
SpecTheme == InitDrawn /\ [][NextTheme]_vars

\* GET /api/weather: the event loop runs a continuation whose promise has
\* settled; nothing obliges the upstream service to answer
SpecWeather == Init /\ [][NextWeather]_vars /\ WF_vars(WeatherHandlerStep)

\* public/client.js, the page's own lookup
SpecClientWeather == Init /\ [][NextClient]_vars /\ WF_vars(ClientStep)

\* client.js, the lookup through GET /api/weather
SpecProxyWeather == Init /\ [][NextProxy]_vars /\ WF_vars(ProxyStep)

\* server.js: connections, requests and SIGTERM signals in any order
SpecShutdown == Init /\ [][NextShutdown]_vars

\* renderPagination alone, on a drawn pagination
SpecPagination == InitPagination /\ [][NextPagination]_vars

\* the page and its Router, under any order of events and answers
SpecRouter == Init /\ [][NextRouter]_vars

\* the page's start-up: the event loop runs a continuation whose promise has
\* settled; nothing obliges the browser's geolocation or api.open-meteo.com
\* to answer
SpecStartup == Init /\ [][NextStartup]_vars /\ WF_vars(ClientStep \/ StartupRoute)

----------------------------------------------------------------------------
(* Claims *)

\* the table of the claim: (color, name) by code
ThemeTable(c) ==
    IF c.kind # "number" THEN <<"#00C6BD", "default">>
    ELSE IF c.n = 0 THEN <<"#00C6BD", "clear">>
    ELSE IF c.n \in {1, 2, 3, 45, 48} THEN <<"#8E8E93", "clouds">>
    ELSE IF c.n \in (51..67) \cup (80..82) THEN <<"#4A90E2", "rain">>
    ELSE IF c.n \in (71..77) \cup {85, 86} THEN <<"#B8C5D6", "snow">>
    ELSE IF c.n \in 95..99 THEN <<"#4A90E2", "thunderstorm">>
    ELSE <<"#00C6BD", "default">>

\* C1: whenever the upstream lookup of GET /api/weather has failed (fetch
\* rejected, non-OK status, unparsable body, body without current_weather),
\* the handler either has answered 200 with {success:false, theme:<default>,
\* error} or has not answered yet and its next step is enabled.
C1_WeatherFailureAnswers200Default ==
    (wfetch \in {"rejected", "notok"}
        \/ wbody \in {BodyUnparsable, BodyNull, BodyNoCurrent})
    => \/ /\ wpc = "done"
          /\ wres.status = 200
          /\ wres.success = FALSE
          /\ wres.theme = Theme("#00C6BD", "default", "gibon")
          /\ wres.error # ""
          /\ wres.weather = NoWeather
       \/ /\ wpc # "done"
          /\ wres = NoResponse
          /\ ENABLED WeatherHandlerStep

C1_Witness ==
    wpc = "done" /\ wbody = BodyNoCurrent /\ wres.status = 200 /\ ~wres.success

\* C2: both getThemeFromWeatherCode versions map the drawn code (an integer,
\* 9999, a negative code or an absent code) to the (color, name) of the table.
C2_ThemeMappingFollowsTable ==
    /\ serverTheme # NoTheme
        => <<serverTheme.color, serverTheme.name>> = ThemeTable(code)
    /\ clientTheme # NoTheme
        => <<clientTheme.color, clientTheme.name>> = ThemeTable(code)

C2_Witness ==
    code = Num(9999) /\ serverTheme.name = "default" /\ clientTheme.name = "default"

\* C3: once every view_count write of the detail fetches of a post has been
\* executed (none in flight, none failed), the stored view_count is its
\* initial value plus the number of detail fetches answered.
C3_NoLostViewCountUpdate ==
    \A i \in Ids :
        (table[i].exists /\ fetched[i] >= 1 /\ Pending(i) = 0 /\ incFailed[i] = 0)
        => table[i].view_count = 0 + fetched[i]

\* C7: a detail fetch of a created post that no PUT has written returns the
\* title and content it was created with; its stored view_count is 0 while no
\* detail fetch has been answered, and 1 once exactly one has been answered
\* and its view_count write has been executed.
C7_CreateThenGet ==
    /\ (lastRes.req.op = "get" /\ lastRes.status = 200
            /\ updates[lastRes.req.id] = 0)
        => /\ lastRes.post.title = created[lastRes.req.id].title
           /\ lastRes.post.content = created[lastRes.req.id].content
    /\ \A i \in Ids :
        /\ (table[i].exists /\ fetched[i] = 0) => table[i].view_count = 0
        /\ (table[i].exists /\ fetched[i] = 1 /\ Pending(i) = 0 /\ incFailed[i] = 0)
            => table[i].view_count = 1

C7_Witness ==
    /\ lastRes.req.op = "get" /\ lastRes.status = 200 /\ lastRes.post.title = "t2"
    /\ updates[1] = 0 /\ table[1].exists
    /\ fetched[1] = 1 /\ Pending(1) = 0 /\ incFailed[1] = 0
    /\ table[1].view_count = 1

\* C8: a detail fetch whose id matched no row, the database call itself not
\* having failed, is answered 404.
C8_MissingIdAnswers404 ==
    (lastRes.req.op = "get" /\ lastRes.rows = 0 /\ ~lastRes.storeFailed)
    => lastRes.status = 404 /\ ~lastRes.success

\* C9: a POST /api/posts whose title or content is missing or empty is
\* answered 400 with success:false and an error, and the step leaves the table
\* and its id counter as they were.
C9_InvalidCreateAnswers400 ==
    [][(/\ lastRes' # lastRes
        /\ lastRes'.req.op = "create"
        /\ \/ lastRes'.req.body.title \in {Absent, ""}
           \/ lastRes'.req.body.content \in {Absent, ""})
       => /\ lastRes'.status = 400
          /\ ~lastRes'.success
          /\ lastRes'.error # ""
          /\ table' = table
          /\ nextId' = nextId]_vars

C9_Witness ==
    /\ lastRes.req.op = "create" /\ lastRes.req.body.title = ""
    /\ lastRes.req.body.content = "c1" /\ lastRes.status = 400
    /\ table[1].exists

\* C10: a detail fetch of an id whose row a DELETE has removed, the database
\* call itself not having failed, is answered 404.
C10_GetAfterDeleteAnswers404 ==
    (lastRes.req.op = "get" /\ lastRes.req.id \in removed /\ ~lastRes.storeFailed)
    => lastRes.status = 404

\* C4: in public/client.js, a lookup that failed (fetch rejected, non-OK
\* status, a body that is unparsable or lacks the current weather code, or a
\* code outside the table) ends with the theme named 'default' (#00C6BD) in
\* AppState.currentTheme.
C4_ClientFailureAppliesDefault ==
    (/\ cpc = "done"
     /\ \/ cfetch \in {"rejected", "notok"}
        \/ cbody \in {BodyUnparsable, BodyNull, BodyNoCurrent}
        \/ /\ cbody.kind = "object" /\ cbody.hasCurrent
           /\ \/ cbody.weathercode = Undefined
              \/ ThemeTable(cbody.weathercode)[2] = "default")
    => currentTheme.name = "default" /\ currentTheme.color = "#00C6BD"

\* C5: in client.js, a failure of API.getWeather (the request rejects or the
\* body cannot be parsed) ends with the default theme applied and with no
\* unhandled rejection, whether geolocation succeeds, is denied or is absent.
C5_ProxyFailureAppliesDefault ==
    (ppc = "done" /\ (pfetch = "rejected" \/ presult = ResultUnparsable))
    => proxyTheme = DefaultTheme /\ ~unhandledRejection

\* C6: a weather lookup that has been started always ends with a response,
\* also when the upstream service never replies.
C6_WeatherLookupNeverHangs == (wpc = "awaitFetch") ~> (wpc = "done")

\* C11: a DELETE whose id matched no row (never created, or already deleted),
\* the database call itself not having failed, is answered 404 and not a
\* success.
C11_DeleteMissingAnswers404 ==
    (lastRes.req.op = "delete" /\ lastRes.rows = 0 /\ ~lastRes.storeFailed)
    => lastRes.status = 404 /\ ~lastRes.success

\* C12: a PUT whose id matched no row, the database call itself not having
\* failed, is answered 404 and not a success.
C12_UpdateMissingAnswers404 ==
    (lastRes.req.op = "update" /\ lastRes.rows = 0 /\ ~lastRes.storeFailed)
    => lastRes.status = 404 /\ ~lastRes.success

\* C13: the row a successful PUT returns holds, in each of title, content,
\* excerpt and thumbnail, the value passed in the request; for a field the
\* request omitted that is null or empty, not the value stored before.
C13_UpdateOverwritesAllFields ==
    (lastRes.req.op = "update" /\ lastRes.status = 200)
    => /\ lastRes.post.title =
              IF lastRes.req.body.title = Absent THEN Null ELSE lastRes.req.body.title
       /\ lastRes.post.content =
              IF lastRes.req.body.content = Absent THEN Null ELSE lastRes.req.body.content
       /\ IF lastRes.req.body.excerpt = Absent
             THEN lastRes.post.excerpt \in {Null, ""}
             ELSE lastRes.post.excerpt = lastRes.req.body.excerpt
       /\ IF lastRes.req.body.thumbnail = Absent
             THEN lastRes.post.thumbnail \in {Null, ""}
             ELSE lastRes.post.thumbnail = lastRes.req.body.thumbnail

\* C14: a successful PUT leaves the post with an updated_at later than the one
\* stored before it, with the same id, created_at and view_count, and leaves
\* every other row as it was.
C14_UpdateRefreshesUpdatedAtOnly ==
    [][(/\ lastRes' # lastRes
        /\ lastRes'.req.op = "update"
        /\ lastRes'.status = 200)
       => /\ table'[lastRes'.req.id].updated_at > table[lastRes'.req.id].updated_at
          /\ table'[lastRes'.req.id].id = table[lastRes'.req.id].id
          /\ table'[lastRes'.req.id].created_at = table[lastRes'.req.id].created_at
          /\ table'[lastRes'.req.id].view_count = table[lastRes'.req.id].view_count
          /\ \A j \in Ids \ {lastRes'.req.id} : table'[j] = table[j]]_vars

\* C15: a list request whose database call does not fail is answered 200 with
\* success; total is the number of stored posts N, totalPages is the least
\* number of pages of `limit` posts that hold N posts (0 when N = 0), and
\* a page that starts at or beyond N holds no posts.
C15_ListPaginationTotals ==
    [][(/\ lastRes' # lastRes
        /\ lastRes'.req.op = "list"
        /\ ~lastRes'.storeFailed)
       => /\ lastRes'.status = 200
          /\ lastRes'.success
          /\ lastRes'.pagination.total = Cardinality(Stored)
          /\ lastRes'.pagination.totalPages * lastRes'.pagination.limit
                >= Cardinality(Stored)
          /\ (lastRes'.pagination.totalPages - 1) * lastRes'.pagination.limit
                < Cardinality(Stored)
          /\ (Cardinality(Stored) = 0 => lastRes'.pagination.totalPages = 0)
          /\ ((lastRes'.pagination.page - 1) * lastRes'.pagination.limit
                  >= Cardinality(Stored)
                => lastRes'.posts = <<>>)]_vars

\* the stored ids by created_at descending, then id descending
OrderedTable ==
    CHOOSE s \in Orders :
        \A j, k \in 1..Cardinality(Stored) :
            (j < k /\ table[s[j]].created_at = table[s[k]].created_at) => s[j] > s[k]

\* C16: page p of a list answer, 1 <= p <= totalPages, holds exactly the posts
\* at offsets (p-1)*L .. p*L-1 of the table ordered by created_at descending
\* then id descending (so the pages 1..totalPages together hold every stored
\* post exactly once).
C16_PagesPartitionTheTable ==
    [][(/\ lastRes' # lastRes
        /\ lastRes'.req.op = "list"
        /\ lastRes'.status = 200
        /\ lastRes'.pagination.page <= lastRes'.pagination.totalPages)
       => LET L   == lastRes'.pagination.limit
              off == (lastRes'.pagination.page - 1) * L
              N   == Cardinality(Stored)
          IN  /\ Len(lastRes'.posts) = (IF off + L < N THEN L ELSE N - off)
              /\ \A j \in 1..Len(lastRes'.posts) :
                    lastRes'.posts[j].id = OrderedTable[off + j]]_vars

\* C17: the posts of a list answer are in created_at descending order, and
\* posts of equal created_at in id descending order.
C17_ListOrderedByCreatedAtThenId ==
    (lastRes.req.op = "list" /\ lastRes.status = 200)
    => \A j \in 1..(Len(lastRes.posts) - 1) :
          \/ lastRes.posts[j].created_at > lastRes.posts[j + 1].created_at
          \/ /\ lastRes.posts[j].created_at = lastRes.posts[j + 1].created_at
             /\ lastRes.posts[j].id > lastRes.posts[j + 1].id

\* C18: a detail fetch that found its row is answered 200 with that row
\* whatever becomes of its view_count write, and every view_count write that
\* failed has been logged.
C18_IncrementFailureLoggedNotSurfaced ==
    /\ (lastRes.req.op = "get" /\ lastRes.rows = 1 /\ ~lastRes.storeFailed)
        => /\ lastRes.status = 200
           /\ lastRes.success
           /\ lastRes.post.id = lastRes.req.id
    /\ \A i \in Ids : incLogged[i] = incFailed[i]

\* C19: in each of the five posts handlers, a request whose database call
\* failed is answered 500 with success:false and the message of the failure,
\* and the step leaves the table, its id counter and the view_count writes in
\* flight as they were (the call is not made again).
C19_StoreFailureAnswers500Once ==
    [][(lastRes' # lastRes /\ lastRes'.storeFailed)
       => /\ lastRes'.req.op \in {"list", "get", "create", "update", "delete"}
          /\ lastRes'.status = 500
          /\ ~lastRes'.success
          /\ lastRes'.error = StoreError.error
          /\ table' = table
          /\ nextId' = nextId
          /\ incs' = incs]_vars

C19_Witness ==
    /\ lastRes.storeFailed /\ lastRes.req.op = "list" /\ lastRes.status = 500
    /\ lastRes.error = "StoreError" /\ table[1].exists

\* the channels of a color given as six hex digits
Channels(h) == <<16 * h[1] + h[2], 16 * h[3] + h[4], 16 * h[5] + h[6]>>

\* C20: for a 6-hex-digit color and a percent in 0..100, the result of darken
\* has exactly 6 hex digits and each of its R, G, B channels is
\* max(0, channel - a), a being 2.55 * percent rounded to the nearest integer,
\* halves upwards (25.5 to 26); darken('#00C6BD', 10) is '#00aca3', each
\* channel lowered by 26.
C20_DarkenLowersEachChannel ==
    (dresult # <<>> /\ dpercent <= 100)
    => /\ Len(dresult) = 6
       /\ \A d \in 1..Len(dresult) : dresult[d] \in 0..15
       /\ LET a == (255 * dpercent + 50) \div 100
          IN  \A ch \in 1..3 :
                Channels(dresult)[ch] =
                    (IF Channels(dhex)[ch] > a THEN Channels(dhex)[ch] - a ELSE 0)
       /\ (dhex = <<0, 0, 12, 6, 11, 13>> /\ dpercent = 10)
             => dresult = <<0, 0, 10, 12, 10, 3>>

\* C21: every post of a list answer has exactly the fields id, title, excerpt,
\* thumbnail, created_at and view_count (so no content), with the values of
\* its stored row at the time of the answer.
C21_ListProjectsSixFields ==
    [][(/\ lastRes' # lastRes
        /\ lastRes'.req.op = "list"
        /\ lastRes'.status = 200)
       => \A j \in 1..Len(lastRes'.posts) :
            /\ DOMAIN lastRes'.posts[j] =
                  {"id", "title", "excerpt", "thumbnail", "created_at", "view_count"}
            /\ lastRes'.posts[j].id \in Stored
            /\ lastRes'.posts[j].title = table[lastRes'.posts[j].id].title
            /\ lastRes'.posts[j].excerpt = table[lastRes'.posts[j].id].excerpt]_vars

C21_Witness ==
    /\ lastRes.req.op = "list" /\ lastRes.status = 200
    /\ Len(lastRes.posts) = 2 /\ table[lastRes.posts[1].id].content = "c2"

\* C26: every stored post has a non-empty title and a non-empty content.
C26_StoredTitleAndContentNonEmpty ==
    \A i \in Ids :
        table[i].exists
        => /\ table[i].title \notin {"", Null, Absent}
           /\ table[i].content \notin {"", Null, Absent}

\* C25: no step lowers the stored view_count of a post.
C25_ViewCountNeverDecreases ==
    [][\A i \in Ids :
          (table[i].exists /\ table'[i].exists)
          => table'[i].view_count >= table[i].view_count]_vars

C23_DetailFailureRedirects ==
    [][/\ (answered' # answered /\ answered'.req.kind = "detail" /\ ~answered'.ok)
          => /\ toast'
             /\ ~isLoading'
             /\ currentPost' = currentPost
             /\ path' = path
             /\ timers' = timers + 1
       /\ (timers' < timers)
          => /\ path' = Root
             /\ listVisible' /\ ~detailVisible'
             /\ currentPost' = currentPost]_vars

\* post 1 was loaded, a later load of '/post/1' failed, and the redirect
\* timer has fired: the list is shown at '/', the current post is still post 1
C23_Witness ==
    /\ answered.req.kind = "detail" /\ ~answered.ok
    /\ currentPost = 1
    /\ timers = 0
    /\ path = Root
    /\ listVisible /\ ~detailVisible

C27_NotLoadingMeansNoRequest == ~isLoading => inflight = {}

\* C28: once no list request is in flight, AppState.posts is the page
\* AppState.currentPage (stated where no request has failed and a list has
\* been rendered).
C28_PostsAreOfCurrentPage ==
    (/\ \A r \in inflight : r.kind # "list"
     /\ failures = 0
     /\ postsPage # 0)
        => postsPage = currentPage

\* C29: once no request of the Router is in flight and no redirect timer is
\* pending, the detail container is visible and the list container hidden if
\* and only if the path starts with '/post/'.
C29_VisibleContainerMatchesPath ==
    (started /\ inflight = {} /\ timers = 0)
        => ((detailVisible /\ ~listVisible) <=> StartsWithPost(path))

\* C30: the DOMContentLoaded handler eventually makes its first
\* Router.handleRoute call, whatever the geolocation request and the weather
\* lookup do.
C30_StartupReachesRouter == <>started


=============================================================================
